---- MODULE Spec2Model ----
(***************************************************************************)
(* compact_path_tree: CompactPathTree::new walks a directory depth first   *)
(* under a PathVisitor and encodes the names it includes in one PathBuf;   *)
(* CompactPathTreeIter replays that PathBuf into full paths.               *)
(*                                                                         *)
(* A path is a sequence of component strings.  The encoded buffer is the   *)
(* sequence of strings pushed onto the PathBuf: entry names and "..".      *)
(***************************************************************************)
EXTENDS Integers, Sequences, FiniteSets, TLC

VARIABLES fs, policy, phase, stack, path, ret, result, retErr, tree,
          items, nerr, log, cursors

vars == <<fs, policy, phase, stack, path, ret, result, retErr, tree,
          items, nerr, log, cursors>>

----------------------------------------------------------------------------
(* Bounds *)

\* at most this many io::Errors are raised during one build
MaxErrors == 2

----------------------------------------------------------------------------
(* The environment: directory trees, io::Error kinds, visitors *)

\* the root handed to CompactPathTree::new
Root == <<"root">>

\* Component::ParentDir.as_os_str()
ParentDir == ".."

\* Component::CurDir.as_os_str()
CurDir == "."

None == "None"

Entry(n, t) == [name |-> n, typ |-> t]

NoItem == Entry("-", "-")

\* A file system maps each directory that can be listed to the entries its
\* read_dir yields, in the order it yields them.  read_dir never yields
\* "." or "..".
FsA == (Root :> <<Entry("a", "file")>>)

FsB == (Root :> <<Entry("d", "dir")>>) @@
       (<<"root", "d">> :> <<Entry("b", "file")>>)

\* l is a symbolic link to a directory; the last line is what a read_dir
\* of the link would yield
FsC == (Root :> <<Entry("d", "dir"), Entry("l", "symlink")>>) @@
       (<<"root", "d">> :> <<Entry("e", "dir"), Entry("a", "file")>>) @@
       (<<"root", "d", "e">> :> <<Entry("a", "file")>>) @@
       (<<"root", "l">> :> <<Entry("x", "file")>>)

Trees == {FsA, FsB, FsC}

\* the entries read_dir(dir) yields
Listing(f, dir) == IF dir \in DOMAIN f THEN f[dir] ELSE << >>

ErrorKinds == {"PermissionDenied", "NotFound"}

\* an io::Error, with the operation that raised it and what it was raised on
Error(k, o, d, e) == [kind |-> k, origin |-> o, dir |-> d, entry |-> e]

NoError == Error("-", "-", << >>, "-")

\* "default": every method of PathVisitor left as the trait defines it;
\* "stats": the example's Stats (visit overridden, it reads the metadata);
\* "custom": a visitor overriding all three methods, free in what it answers
Policies == {"default", "stats", "custom"}

\* PathVisitor::filter: the results the visitor can give
FilterResults(p) ==
    IF p = "custom" THEN {"true", "false"} \cup ErrorKinds ELSE {"true"}

\* PathVisitor::visit: the results the visitor can give
VisitResults(p) ==
    IF p = "default" THEN {"ok"} ELSE {"ok"} \cup ErrorKinds

\* PathVisitor::handle_error: None (ignore) or Some (fatal)
HandleErrorDefault(e) ==
    IF e.kind = "PermissionDenied" THEN {"None"} ELSE {"Some"}

HandleError(p, e) ==
    IF p = "custom" THEN {"None", "Some"} ELSE HandleErrorDefault(e)

----------------------------------------------------------------------------
(* PathBuf operations *)

\* PathBuf::push of a relative component
Push(p, c) == Append(p, c)

\* a pop that leaves the path as it is
PopNothing(p) == p

\* PathBuf::pop: truncate to the parent, if there is one
Pop(p) == IF Len(p) > 0 THEN SubSeq(p, 1, Len(p) - 1) ELSE p

\* path.push(item.file_name()), lib.rs line 82
PushName(p, item) == Push(p, item.name)

\* a ".." that is never written
PushUpNothing(p) == p

\* path.push(Component::ParentDir.as_os_str()), lib.rs lines 86 and 89
PushUp(p) == Push(p, ParentDir)

\* the name pushed before the type is asked for
AddItemBufferEager(p, item, r) == PushName(p, item)

\* add_item, lines 80-82: the buffer once file_type gave r; its ? returns
\* before anything is pushed
AddItemBuffer(p, item, r) ==
    IF r \in ErrorKinds THEN p ELSE PushName(p, item)

\* the ".." pushed only after a walk that succeeded, as
\* `Self::build_tree(..)?; path.push("..")` would
UpAfterBuildTreeOnOk(p, r) == IF r.kind = "Ok" THEN PushUp(p) ELSE p

\* add_item, lines 85-87: the ".." is pushed whatever build_tree returned
UpAfterBuildTree(p, r) == PushUp(p)

\* DirEntry::path: the directory read joined with the file name
ItemPath(dir, item) == Push(dir, item.name)

\* a type test that follows symbolic links, as fs::metadata would
IsDirFollow(t) == t \in {"dir", "symlink"}

\* FileType::is_dir: false for a symlink, whatever it points at
IsDir(t) == t = "dir"

\* a classification that takes ".." for a name
ComponentKindNoParent(c) == IF c = CurDir THEN "CurDir" ELSE "Normal"

\* Path::components classifies each component of the buffer
ComponentKind(c) ==
    IF c = ParentDir THEN "ParentDir"
    ELSE IF c = CurDir THEN "CurDir"
    ELSE "Normal"

----------------------------------------------------------------------------
(* CompactPathTreeIter: the decoder *)

\* One call of CompactPathTreeIter::next on a cursor at `cur`, with `pos`
\* components of `buf` already consumed: the for loop over the remaining
\* components.
RECURSIVE IterScan(_, _, _)
IterScan(cur, pos, buf) ==
    IF pos >= Len(buf)
    THEN [current |-> cur, pos |-> pos, some |-> FALSE, panic |-> FALSE]
    ELSE LET c == buf[pos + 1] IN
         CASE ComponentKind(c) = "ParentDir" -> IterScan(Pop(cur), pos + 1, buf)
           [] ComponentKind(c) = "Normal" ->
                [current |-> Push(cur, c), pos |-> pos + 1,
                 some |-> TRUE, panic |-> FALSE]
           [] OTHER ->
                [current |-> cur, pos |-> pos + 1, some |-> FALSE, panic |-> TRUE]

\* The paths a fresh cursor over (root, buf) yields until it returns None
RECURSIVE IterCollect(_, _, _)
IterCollect(cur, pos, buf) ==
    LET s == IterScan(cur, pos, buf) IN
    IF s.some THEN <<s.current>> \o IterCollect(s.current, s.pos, buf)
    ELSE << >>

\* tree.iter().collect()
Iterate(root, buf) == IterCollect(root, 0, buf)

Cursors == {1, 2}

NoCursor == [live |-> FALSE, current |-> << >>, pos |-> 0, out |-> << >>,
             ended |-> FALSE, panic |-> FALSE]

\* an iterator kept in one place and handed to every caller: a new cursor
\* takes up where cursor 1 stands
IntoIterShared(t) ==
    IF cursors[1].live THEN cursors[1]
    ELSE [live |-> TRUE, current |-> t.root, pos |-> 0, out |-> << >>,
          ended |-> FALSE, panic |-> FALSE]

\* IntoIterator for &CompactPathTree
IntoIter(t) == [live |-> TRUE, current |-> t.root, pos |-> 0, out |-> << >>,
                ended |-> FALSE, panic |-> FALSE]

----------------------------------------------------------------------------
(* The builder's state *)

\* an activation of build_tree that walks the listing from its end
FrameReversed(d, l) ==
    [dir |-> d, rest |-> [i \in 1..Len(l) |-> l[Len(l) + 1 - i]],
     item |-> NoItem, pc |-> "loop"]

\* one activation of build_tree: the directory it reads, the entries its
\* ReadDir has not yielded yet, the item add_item is working on and where
\* add_item stands
Frame(d, l) == [dir |-> d, rest |-> l, item |-> NoItem, pc |-> "loop"]

\* the io::Result<()> a returned build_tree hands to its caller
NoRet == [kind |-> "none", err |-> NoError]
RetOk == [kind |-> "Ok", err |-> NoError]
RetErr(e) == [kind |-> "Err", err |-> e]

NoTree == [root |-> << >>, path |-> << >>]

\* history: the calls made on the environment and the visitor, with the
\* buffer as each call left it
Event(op, d, e, r, err, buf) ==
    [op |-> op, dir |-> d, entry |-> e, res |-> r, err |-> err, buf |-> buf]

Top == stack[Len(stack)]

\* the kinds of io::Error an operation of the environment may raise now
Raisable == IF nerr < MaxErrors THEN ErrorKinds ELSE {}

Init ==
    /\ fs \in Trees
    /\ policy \in Policies
    /\ phase = "start"
    /\ stack = << >>
    /\ path = << >>
    /\ ret = NoRet
    /\ result = "none"
    /\ retErr = NoError
    /\ tree = NoTree
    /\ items = 0
    /\ nerr = 0
    /\ log = << >>
    /\ cursors = [c \in Cursors |-> NoCursor]

----------------------------------------------------------------------------
(* CompactPathTree::new, build_tree, add_item *)

\* build_tree returns r: its caller is add_item at line 85, or new at line 126
ReturnFrom(r) ==
    /\ ret' = r
    /\ IF Len(stack) = 1
       THEN /\ stack' = << >>
            /\ phase' = "after_build"
       ELSE /\ stack' = [SubSeq(stack, 1, Len(stack) - 1)
                            EXCEPT ![Len(stack) - 1].pc = "after_sub"]
            /\ phase' = phase

\* add_item returned Ok(()): the for loop of build_tree goes on
NextIteration ==
    /\ stack' = [stack EXCEPT ![Len(stack)].pc = "loop",
                              ![Len(stack)].item = NoItem]
    /\ ret' = NoRet
    /\ phase' = phase

\* `break` in place of `continue`
AfterListErrorBreak(rest) == << >>

\* the ReadDir after it yielded an Err item: `continue` asks it for the next
AfterListError(rest) == Tail(rest)

\* add_item returned Err(e), lines 107-111: handle_error(e, dir, Some(&item))
\* decides between the next iteration and return Err(e).  evs are the
\* events of the calls made before.
AddItemFailed(e, evs) ==
    \E v \in HandleError(policy, e) :
        /\ log' = log \o evs \o
                  <<Event("handle_error", Top.dir, Top.item.name, v, e, path')>>
        /\ IF v = "None" THEN NextIteration ELSE ReturnFrom(RetErr(e))

\* new, lines 125-126: build_tree(&mut path, &root, visitor) opens the root
New ==
    /\ phase = "start"
    /\ path' = << >>
    /\ \E r \in {"ok"} \cup Raisable :
          LET e == IF r = "ok" THEN NoError ELSE Error(r, "read_dir", Root, None)
          IN /\ log' = Append(log, Event("read_dir", Root, None, r, e, path'))
             /\ IF r = "ok"
                THEN /\ stack' = <<Frame(Root, Listing(fs, Root))>>
                     /\ phase' = "building"
                     /\ UNCHANGED <<ret, nerr>>
                ELSE /\ stack' = << >>
                     /\ phase' = "after_build"
                     /\ ret' = RetErr(e)
                     /\ nerr' = nerr + 1
    /\ UNCHANGED <<fs, policy, result, retErr, tree, items, cursors>>

\* a new that drops the result of build_tree and wraps whatever was built
NewOutcomeLenient(r, p) ==
    [result |-> "ok", tree |-> [root |-> Root, path |-> p], err |-> NoError]

\* new, lines 126-129: what new returns when build_tree returned r with the
\* buffer p: Err(e) from the ?, else Ok(Self {root, path})
NewOutcome(r, p) ==
    IF r.kind = "Ok"
    THEN [result |-> "ok", tree |-> [root |-> Root, path |-> p], err |-> NoError]
    ELSE [result |-> "err", tree |-> NoTree, err |-> r.err]

\* new, lines 126-129: the ? on build_tree's result, then Ok(Self {root, path})
NewReturn ==
    /\ phase = "after_build"
    /\ phase' = "done"
    /\ ret' = NoRet
    /\ result' = NewOutcome(ret, path).result
    /\ tree' = NewOutcome(ret, path).tree
    /\ retErr' = NewOutcome(ret, path).err
    /\ UNCHANGED <<fs, policy, stack, path, items, nerr, log, cursors>>

\* build_tree, lines 100-105: the ReadDir yields its next item
NextItem ==
    /\ phase = "building"
    /\ Top.pc = "loop"
    /\ Top.rest # << >>
    /\ path' = path
    /\ \E r \in {"ok"} \cup Raisable :
          IF r = "ok"
          THEN /\ stack' = [stack EXCEPT ![Len(stack)].item = Head(Top.rest),
                                         ![Len(stack)].rest = Tail(Top.rest),
                                         ![Len(stack)].pc = "filter"]
               /\ log' = Append(log, Event("next", Top.dir, Head(Top.rest).name,
                                           r, NoError, path))
               /\ UNCHANGED <<ret, phase, nerr>>
          ELSE LET e == Error(r, "next", Top.dir, None) IN
               \E v \in HandleError(policy, e) :
                  /\ nerr' = nerr + 1
                  /\ log' = log \o
                        <<Event("next", Top.dir, None, r, e, path),
                          Event("handle_error", Top.dir, None, v, e, path)>>
                  /\ IF v = "None"
                     THEN /\ stack' = [stack EXCEPT ![Len(stack)].rest =
                                                 AfterListError(Top.rest)]
                          /\ UNCHANGED <<ret, phase>>
                     ELSE ReturnFrom(RetErr(e))
    /\ UNCHANGED <<fs, policy, result, retErr, tree, items, cursors>>

\* build_tree, lines 100 and 114: the ReadDir is exhausted, Ok(())
LoopEnd ==
    /\ phase = "building"
    /\ Top.pc = "loop"
    /\ Top.rest = << >>
    /\ ReturnFrom(RetOk)
    /\ log' = Append(log, Event("loop_end", Top.dir, None, "ok", NoError, path))
    /\ UNCHANGED <<fs, policy, path, result, retErr, tree, items, nerr, cursors>>

\* a test that takes every Ok answer of filter for an inclusion
FilterPassesAlways(r) == r \in {"true", "false"}

\* add_item, line 71: `if !visitor.filter(&item)? { return Ok(()) }` goes on
\* with the entry only on Ok(true)
FilterPasses(r) == r = "true"

\* add_item, lines 71-73: visitor.filter(&item)?
Filter ==
    /\ phase = "building"
    /\ Top.pc = "filter"
    /\ path' = path
    /\ \E r \in FilterResults(policy) \cap ({"true", "false"} \cup Raisable) :
          LET ev == Event("filter", Top.dir, Top.item.name, r,
                          IF r \in ErrorKinds
                          THEN Error(r, "filter", Top.dir, Top.item.name)
                          ELSE NoError, path)
          IN CASE FilterPasses(r) ->
                    /\ stack' = [stack EXCEPT ![Len(stack)].pc = "visit"]
                    /\ log' = Append(log, ev)
                    /\ UNCHANGED <<ret, phase, nerr>>
               [] ~FilterPasses(r) /\ r = "false" ->
                    /\ NextIteration
                    /\ log' = Append(log, ev)
                    /\ nerr' = nerr
               [] OTHER ->
                    /\ nerr' = nerr + 1
                    /\ AddItemFailed(ev.err, <<ev>>)
    /\ UNCHANGED <<fs, policy, result, retErr, tree, items, cursors>>

\* add_item, line 75: visitor.visit(item)?  Stats::visit counts the item
\* once the metadata is read.
Visit ==
    /\ phase = "building"
    /\ Top.pc = "visit"
    /\ path' = path
    /\ \E r \in VisitResults(policy) \cap ({"ok"} \cup Raisable) :
          LET ev == Event("visit", Top.dir, Top.item.name, r,
                          IF r \in ErrorKinds
                          THEN Error(r, "visit", Top.dir, Top.item.name)
                          ELSE NoError, path)
          IN IF r = "ok"
             THEN /\ stack' = [stack EXCEPT ![Len(stack)].pc = "file_type"]
                  /\ items' = items + 1
                  /\ log' = Append(log, ev)
                  /\ UNCHANGED <<ret, phase, nerr>>
             ELSE /\ nerr' = nerr + 1
                  /\ items' = items
                  /\ AddItemFailed(ev.err, <<ev>>)
    /\ UNCHANGED <<fs, policy, result, retErr, tree, cursors>>

\* add_item, lines 80-82: item.file_type()?, then path.push(item.file_name())
FileType ==
    /\ phase = "building"
    /\ Top.pc = "file_type"
    /\ \E r \in {Top.item.typ} \cup Raisable :
          /\ path' = AddItemBuffer(path, Top.item, r)
          /\ LET ev == Event("file_type", Top.dir, Top.item.name, r,
                             IF r \in ErrorKinds
                             THEN Error(r, "file_type", Top.dir, Top.item.name)
                             ELSE NoError, path)
             IN IF r \in ErrorKinds
                THEN /\ nerr' = nerr + 1
                     /\ AddItemFailed(ev.err, <<ev>>)
                ELSE /\ stack' = [stack EXCEPT ![Len(stack)].pc = "typed"]
                     /\ log' = log \o
                           <<ev, Event("push_name", Top.dir, Top.item.name,
                                       "ok", NoError, path')>>
                     /\ UNCHANGED <<ret, phase, nerr>>
    /\ UNCHANGED <<fs, policy, result, retErr, tree, items, cursors>>

\* add_item, lines 83-85 and 88-92: a directory is walked by build_tree,
\* which first opens it (line 100); anything else gets its ".." at once
Descend ==
    /\ phase = "building"
    /\ Top.pc = "typed"
    /\ LET sub == ItemPath(Top.dir, Top.item) IN
       IF IsDir(Top.item.typ)
       THEN /\ path' = path
            /\ \E r \in {"ok"} \cup Raisable :
                  LET e == IF r = "ok" THEN NoError
                           ELSE Error(r, "read_dir", sub, None)
                  IN /\ log' = Append(log, Event("read_dir", sub, None, r, e, path))
                     /\ IF r = "ok"
                        THEN /\ stack' = Append(
                                  [stack EXCEPT ![Len(stack)].pc = "in_sub"],
                                  Frame(sub, Listing(fs, sub)))
                             /\ UNCHANGED <<ret, nerr>>
                        ELSE /\ stack' = [stack EXCEPT ![Len(stack)].pc = "after_sub"]
                             /\ ret' = RetErr(e)
                             /\ nerr' = nerr + 1
            /\ phase' = phase
       ELSE /\ path' = PushUp(path)
            /\ log' = Append(log, Event("push_up", Top.dir, Top.item.name, "ok",
                                        NoError, path'))
            /\ NextIteration
            /\ nerr' = nerr
    /\ UNCHANGED <<fs, policy, result, retErr, tree, items, cursors>>

\* add_item, lines 85-87: build_tree returned r; push the ".." and then r?
AfterSub ==
    /\ phase = "building"
    /\ Top.pc = "after_sub"
    /\ path' = UpAfterBuildTree(path, ret)
    /\ LET ev == Event("push_up", Top.dir, Top.item.name, "ok", NoError, path')
       IN IF ret.kind = "Ok"
          THEN /\ NextIteration
               /\ log' = Append(log, ev)
          ELSE AddItemFailed(ret.err, <<ev>>)
    /\ UNCHANGED <<fs, policy, result, retErr, tree, items, nerr, cursors>>

----------------------------------------------------------------------------
(* Decoding the finished tree *)

\* tree.iter(): a fresh cursor
Iter(c) ==
    /\ phase = "done"
    /\ result = "ok"
    /\ cursors' = [cursors EXCEPT ![c] = IntoIter(tree)]
    /\ UNCHANGED <<fs, policy, phase, stack, path, ret, result, retErr, tree,
                   items, nerr, log>>

\* CompactPathTreeIter::next on cursor c
IterNext(c) ==
    /\ cursors[c].live
    /\ ~cursors[c].panic
    /\ LET s == IterScan(cursors[c].current, cursors[c].pos, tree.path) IN
       cursors' = [cursors EXCEPT ![c] =
                      [live |-> TRUE, current |-> s.current, pos |-> s.pos,
                       out |-> IF s.some THEN Append(@.out, s.current) ELSE @.out,
                       ended |-> ~s.some /\ ~s.panic, panic |-> s.panic]]
    /\ UNCHANGED <<fs, policy, phase, stack, path, ret, result, retErr, tree,
                   items, nerr, log>>

Next ==
    \/ New
    \/ NewReturn
    \/ NextItem
    \/ LoopEnd
    \/ Filter
    \/ Visit
    \/ FileType
    \/ Descend
    \/ AfterSub
    \/ \E c \in Cursors : Iter(c)
    \/ \E c \in Cursors : IterNext(c)

Spec == Init /\ [][Next]_vars

\* the steps of CompactPathTree::new: one thread that runs on until new
\* returns, every call it makes on the file system or the visitor returning
BuildNext ==
    \/ New
    \/ NewReturn
    \/ NextItem
    \/ LoopEnd
    \/ Filter
    \/ Visit
    \/ FileType
    \/ Descend
    \/ AfterSub

FairSpec == Spec /\ WF_vars(BuildNext)

----------------------------------------------------------------------------
(* Vocabulary of the properties *)

Range(s) == {s[i] : i \in 1..Len(s)}

IsPrefix(p, q) == Len(p) <= Len(q) /\ SubSeq(q, 1, Len(p)) = p

\* the events of the history with operation op
EventsOf(op) == SelectSeq(log, LAMBDA ev : ev.op = op)

\* the path of the entry an event is about
EntryPath(ev) == Push(ev.dir, ev.entry)

\* the included entries, in the order their names were appended
Included == [i \in 1..Len(EventsOf("push_name")) |->
                EntryPath(EventsOf("push_name")[i])]

\* the number of components of kind k among the first n of buf
CountKind(buf, n, k) ==
    Cardinality({i \in 1..n : ComponentKind(buf[i]) = k})

Names(buf) == CountKind(buf, Len(buf), "Normal")

Ups(buf) == CountKind(buf, Len(buf), "ParentDir")

PrefixBalanced(buf) ==
    \A n \in 1..Len(buf) :
        CountKind(buf, n, "ParentDir") <= CountKind(buf, n, "Normal")

\* the activations of add_item that pushed their name and not yet the ".."
OpenItems ==
    {i \in 1..Len(stack) : stack[i].pc \in {"typed", "in_sub", "after_sub"}}

----------------------------------------------------------------------------
(* C1 *)

\* C1: round trip.  After a build that succeeded, iter() yields exactly the
\* included entries (those whose name was appended), each once, each as the
\* root joined with the names of its ancestor directories and its own name,
\* and nothing else; a cursor run to its end has yielded just that.
C1_RoundTrip ==
    result = "ok" =>
        LET inc == Included IN
        /\ Iterate(tree.root, tree.path) = inc
        /\ \A i, j \in 1..Len(inc) : inc[i] = inc[j] => i = j
        /\ \A i \in 1..Len(inc) : IsPrefix(tree.root, inc[i])
        /\ \A c \in Cursors :
              /\ cursors[c].live =>
                    cursors[c].out = SubSeq(inc, 1, Len(cursors[c].out))
              /\ cursors[c].ended => cursors[c].out = inc

\* a cursor ran to the end of a tree holding an entry three levels down
C1_Witness ==
    /\ result = "ok"
    /\ cursors[1].ended
    /\ Len(cursors[1].out) >= 4
    /\ <<"root", "d", "e", "a">> \in Range(cursors[1].out)
    /\ <<"root", "l">> \in Range(cursors[1].out)

----------------------------------------------------------------------------
(* C2 *)

\* C2: the buffer is balanced whenever add_item or build_tree returns, on
\* Ok and on Err: no prefix holds more ".." than names, the names exceed
\* the ".." by exactly the entries add_item is still working on, so by none
\* once the outermost build_tree has returned; and no cursor is ever popped
\* below the root.
C2_Balanced ==
    /\ PrefixBalanced(path)
    /\ Names(path) - Ups(path) = Cardinality(OpenItems)
    /\ phase \in {"after_build", "done"} => Names(path) = Ups(path)
    /\ \A c \in Cursors : cursors[c].live => IsPrefix(tree.root, cursors[c].current)

\* the outermost build_tree returned Err with entries of a subdirectory in
\* the buffer
C2_Witness ==
    /\ phase = "after_build"
    /\ ret.kind = "Err"
    /\ ret.err.dir # Root
    /\ Len(path) >= 4

----------------------------------------------------------------------------
(* C3 *)

\* the errors handle_error was called with
Handled == {ev.err : ev \in Range(EventsOf("handle_error"))}

\* the errors raised by the environment or the visitor
Raised == {ev.err : ev \in {x \in Range(log) : x.op # "handle_error"}} \ {NoError}

\* C3: handle_error is the single point every error is routed through: once
\* new has returned, every error raised during the build was passed to
\* handle_error, and an Err that new returns is one handle_error was asked
\* about.
C3_AllErrorsRouted ==
    phase = "done" =>
        /\ Raised \subseteq Handled
        /\ result = "err" => retErr \in Handled

----------------------------------------------------------------------------
(* C4 *)

\* C4: the verdict of handle_error is final.  After a call that returned
\* Some, no further entry is listed, filtered, visited, typed or appended
\* (only the ".." of the directories being left, and calls of handle_error)
\* and new returns Err; after a call that returned None the loop of the
\* directory goes on.
C4_VerdictAuthoritative ==
    \A i \in 1..Len(log) :
        log[i].op = "handle_error" =>
            IF log[i].res = "Some"
            THEN /\ \A j \in (i + 1)..Len(log) :
                        log[j].op \in {"push_up", "handle_error"}
                 /\ phase = "done" => result = "err"
            ELSE i = Len(log) =>
                    /\ phase = "building"
                    /\ Top.pc = "loop"
                    /\ Top.dir = log[i].dir

----------------------------------------------------------------------------
(* C5 *)

IsIgnored(ev) == ev.op = "handle_error" /\ ev.res = "None"

\* the error was raised by the entry's own filter, visit or type query
IsOwnError(ev) ==
    /\ ev.err.origin \in {"filter", "visit", "file_type"}
    /\ ev.err.dir = ev.dir
    /\ ev.err.entry = ev.entry

\* the buffer when the listing yielded the entry event i is about
BufBefore(i) ==
    log[CHOOSE j \in 1..i : /\ log[j].op = "next"
                            /\ log[j].dir = log[i].dir
                            /\ log[j].entry = log[i].entry].buf

Last(s) == s[Len(s)]

\* C5 as claimed: an error handle_error ignores leaves no trace.  After a
\* call that returned None the buffer holds nothing of the listing item or
\* entry the error is attributed to, and iter() yields no path for it.
C5_NoTrace ==
    \A i \in 1..Len(log) :
        IsIgnored(log[i]) =>
            IF log[i].entry = None
            THEN log[i].buf = log[i - 1].buf
            ELSE /\ log[i].buf = BufBefore(i)
                 /\ EntryPath(log[i]) \notin Range(Iterate(Root, log[i].buf))
                 /\ result = "ok" =>
                       EntryPath(log[i]) \notin Range(Iterate(tree.root, tree.path))

\* C5 amended: an ignored error raised by a listing item or by the entry's
\* own filter, visit or type query leaves no trace of that item or entry in
\* the buffer and iter() yields no path for it; an ignored error that came
\* out of the walk of a subdirectory leaves that subdirectory's name, what
\* was appended inside it and its ".." in the buffer, and iter() yields it.
C5_NoTraceOfOwnError ==
    \A i \in 1..Len(log) :
        IsIgnored(log[i]) =>
            CASE log[i].entry = None -> log[i].buf = log[i - 1].buf
              [] log[i].entry # None /\ IsOwnError(log[i]) ->
                    /\ log[i].buf = BufBefore(i)
                    /\ EntryPath(log[i]) \notin Range(Iterate(Root, log[i].buf))
                    /\ result = "ok" =>
                          EntryPath(log[i]) \notin
                              Range(Iterate(tree.root, tree.path))
              [] OTHER ->
                    /\ IsPrefix(Push(BufBefore(i), log[i].entry), log[i].buf)
                    /\ Last(log[i].buf) = ParentDir
                    /\ EntryPath(log[i]) \in Range(Iterate(Root, log[i].buf))

\* a build succeeded although the type query of an entry failed, with other
\* entries in the tree
C5_Witness ==
    /\ result = "ok"
    /\ Len(tree.path) >= 4
    /\ \E i \in 1..Len(log) :
          /\ IsIgnored(log[i])
          /\ IsOwnError(log[i])
          /\ log[i].err.origin = "file_type"

----------------------------------------------------------------------------
(* C6 *)

FilterTrue == Len(SelectSeq(log, LAMBDA ev : ev.op = "filter" /\ ev.res = "true"))

TypeFailed ==
    Len(SelectSeq(log, LAMBDA ev : ev.op = "file_type" /\ ev.res \in ErrorKinds))

\* the entries reachable from dir through directories, from the k-th entry
\* of its listing on, counted recursively
RECURSIVE EntriesUnder(_, _, _)
EntriesUnder(f, dir, k) ==
    IF k > Len(Listing(f, dir)) THEN 0
    ELSE 1 + (IF Listing(f, dir)[k].typ = "dir"
              THEN EntriesUnder(f, Append(dir, Listing(f, dir)[k].name), 1)
              ELSE 0)
           + EntriesUnder(f, dir, k + 1)

\* C6 as claimed: under the default policy the number of paths iter()
\* yields is the number of entries for which filter returned true.
C6_CountFiltered ==
    (policy = "default" /\ result = "ok") =>
        Len(Iterate(tree.root, tree.path)) = FilterTrue

\* C6 amended: under the default policy the number of paths iter() yields
\* is the number of entries for which filter returned true and whose type
\* query then succeeded; when no error occurred during the walk it is the
\* number of entries reachable from the root.
C6_CountFilteredAndTyped ==
    (policy = "default" /\ result = "ok") =>
        /\ Len(Iterate(tree.root, tree.path)) = FilterTrue - TypeFailed
        /\ nerr = 0 => Len(Iterate(tree.root, tree.path)) = EntriesUnder(fs, Root, 1)

\* a default build succeeded with a type query that failed and entries kept
C6_Witness ==
    /\ policy = "default"
    /\ result = "ok"
    /\ TypeFailed >= 1
    /\ Len(Iterate(tree.root, tree.path)) >= 2

----------------------------------------------------------------------------
(* C7 *)

\* C7: the buffer of a successful build holds exactly one name and one ".."
\* for each included entry and nothing else, so twice as many components as
\* included entries.
C7_TwicePerEntry ==
    result = "ok" =>
        /\ Len(tree.path) = 2 * Len(Included)
        /\ Names(tree.path) = Len(Included)
        /\ Ups(tree.path) = Len(Included)
        /\ \A i \in 1..Len(Included) :
              Cardinality({k \in 1..Len(tree.path) :
                              tree.path[k] = Last(Included[i])}) >= 1

\* a tree with files, directories and a symbolic link, five entries included
C7_Witness ==
    /\ result = "ok"
    /\ Len(tree.path) = 10
    /\ \E ev \in Range(EventsOf("file_type")) : ev.res = "dir"
    /\ \E ev \in Range(EventsOf("file_type")) : ev.res = "file"
    /\ \E ev \in Range(EventsOf("file_type")) : ev.res = "symlink"

----------------------------------------------------------------------------
(* C8 *)

Parent(p) == SubSeq(p, 1, Len(p) - 1)

\* where the listing of dir yields the entry named n
ListingIndex(dir, n) ==
    CHOOSE k \in 1..Len(Listing(fs, dir)) : Listing(fs, dir)[k].name = n

\* out is in pre-order and discovery order
PreOrder(out) ==
    /\ \A j \in 1..Len(out) :
          Len(out[j]) > Len(Root) + 1 =>
              \E i \in 1..(j - 1) : out[i] = Parent(out[j])
    /\ \A i, j, k \in 1..Len(out) :
          (i < j /\ j < k /\ IsPrefix(out[i], out[k])) => IsPrefix(out[i], out[j])
    /\ \A i, j \in 1..Len(out) :
          (i < j /\ Parent(out[i]) = Parent(out[j])) =>
              ListingIndex(Parent(out[i]), Last(out[i]))
                  < ListingIndex(Parent(out[j]), Last(out[j]))

\* C8: iter() yields every included directory before its descendants, all
\* descendants of a directory before the directory's next sibling, and
\* siblings in the order the listing of their directory produced them.
C8_PreOrder ==
    result = "ok" =>
        /\ PreOrder(Iterate(tree.root, tree.path))
        /\ \A c \in Cursors : cursors[c].live => PreOrder(cursors[c].out)

\* a cursor yielded a directory, its subtree, then the directory's sibling
C8_Witness ==
    /\ result = "ok"
    /\ cursors[2].ended
    /\ cursors[2].out = << <<"root", "d">>, <<"root", "d", "e">>,
                           <<"root", "d", "e", "a">>, <<"root", "d", "a">>,
                           <<"root", "l">> >>

----------------------------------------------------------------------------
(* C9 *)

IsListingFailure(ev) == ev.op \in {"read_dir", "next"} /\ ev.err # NoError

\* C9: a failure to list a directory, on opening it or while enumerating
\* it, is passed to handle_error with that directory and entry = None.
C9_ListingFailureRouted ==
    phase = "done" =>
        \A i \in 1..Len(log) :
            IsListingFailure(log[i]) =>
                \E j \in (i + 1)..Len(log) :
                    /\ log[j].op = "handle_error"
                    /\ log[j].err = log[i].err
                    /\ log[j].dir = log[i].dir
                    /\ log[j].entry = None

----------------------------------------------------------------------------
(* C10 *)

IsIgnoredListingError(ev) == IsIgnored(ev) /\ ev.entry = None

\* the items the ReadDir of dir has yielded so far
Yielded(dir) ==
    Len(SelectSeq(log, LAMBDA ev : ev.op = "next" /\ ev.dir = dir))

\* C10 as claimed: after an ignored listing failure in a directory no
\* later entry of that directory is filtered, visited or appended.
C10_RestSkipped ==
    \A i \in 1..Len(log) :
        IsIgnoredListingError(log[i]) =>
            \A j \in (i + 1)..Len(log) :
                ~(/\ log[j].dir = log[i].dir
                  /\ log[j].op \in {"filter", "visit", "push_name"})

\* C10 amended: an ignored listing failure skips only the item that
\* failed: the buffer is as it was, build_tree stays in the loop of that
\* directory and every entry its listing has not yielded yet is still to
\* be processed.
C10_OnlyItemSkipped ==
    \A i \in 1..Len(log) :
        IsIgnoredListingError(log[i]) =>
            /\ log[i].buf = log[i - 1].buf
            /\ i = Len(log) =>
                  /\ phase = "building"
                  /\ Top.dir = log[i].dir
                  /\ Top.pc = "loop"
                  /\ path = log[i].buf
                  /\ Top.rest = SubSeq(Listing(fs, Top.dir), Yielded(Top.dir) + 1,
                                       Len(Listing(fs, Top.dir)))

\* an entry was appended in a directory after a listing failure there was
\* ignored
C10_Witness ==
    \E i, j \in 1..Len(log) :
        /\ i < j
        /\ IsIgnoredListingError(log[i])
        /\ log[j].op = "push_name"
        /\ log[j].dir = log[i].dir

----------------------------------------------------------------------------
(* C11 *)

\* event j is about the entry of event i
SameEntry(i, j) == log[j].dir = log[i].dir /\ log[j].entry = log[i].entry

\* C11: an entry for which filter returned false is skipped entirely: the
\* buffer is as it was before the entry, build_tree goes on with the loop of
\* the same directory, no visit, type query or push is ever made for the
\* entry, nothing is ever read or listed in or below it, and neither the
\* buffer nor iter() holds a path in or below it.
C11_FilteredOut ==
    \A i \in 1..Len(log) :
        (log[i].op = "filter" /\ log[i].res = "false") =>
            /\ log[i].buf = BufBefore(i)
            /\ i = Len(log) =>
                  /\ path = log[i].buf
                  /\ phase = "building"
                  /\ Top.dir = log[i].dir
                  /\ Top.pc = "loop"
            /\ \A j \in 1..Len(log) :
                  /\ (SameEntry(i, j) /\ j # i) => log[j].op = "next"
                  /\ ~IsPrefix(EntryPath(log[i]), log[j].dir)
            /\ \A q \in Range(Iterate(Root, path)) : ~IsPrefix(EntryPath(log[i]), q)
            /\ \A c \in Cursors : \A q \in Range(cursors[c].out) :
                  ~IsPrefix(EntryPath(log[i]), q)

\* the directory d was filtered out, its sibling was included and the tree
\* was decoded
C11_Witness ==
    /\ result = "ok"
    /\ cursors[1].ended
    /\ cursors[1].out = << <<"root", "l">> >>
    /\ \E i \in 1..Len(log) :
          /\ log[i].op = "filter"
          /\ log[i].res = "false"
          /\ EntryPath(log[i]) = <<"root", "d">>

----------------------------------------------------------------------------
(* C12 *)

\* the entries of dir its ReadDir has not yielded yet
NotYielded(dir) ==
    SubSeq(Listing(fs, dir), Yielded(dir) + 1, Len(Listing(fs, dir)))

\* C12: the type is asked for before the buffer is touched: a name is pushed
\* only right after the type query of its entry succeeded, on the buffer as
\* it was before the entry; and when the filter, the visit or the type query
\* of an entry fails and handle_error ignores the error, the buffer is the
\* one before the entry was considered and build_tree goes on with the
\* entries of the same directory not yet yielded.
C12_UntouchedOnOwnError ==
    \A i \in 1..Len(log) :
        /\ log[i].op = "push_name" =>
              /\ log[i - 1].op = "file_type"
              /\ SameEntry(i, i - 1)
              /\ log[i - 1].res \notin ErrorKinds
              /\ log[i - 1].buf = BufBefore(i)
              /\ log[i].buf = Append(BufBefore(i), log[i].entry)
        /\ (IsIgnored(log[i]) /\ IsOwnError(log[i])) =>
              /\ log[i - 1].op = log[i].err.origin
              /\ SameEntry(i, i - 1)
              /\ i = Len(log) =>
                    /\ path = BufBefore(i)
                    /\ phase = "building"
                    /\ Top.dir = log[i].dir
                    /\ Top.pc = "loop"
                    /\ Top.rest = NotYielded(Top.dir)

\* after an ignored error of visit on an entry, a later entry of the same
\* directory was appended
C12_Witness ==
    \E i, j \in 1..Len(log) :
        /\ i < j
        /\ IsIgnored(log[i])
        /\ IsOwnError(log[i])
        /\ log[i].err.origin = "visit"
        /\ log[j].op = "push_name"
        /\ log[j].dir = log[i].dir

----------------------------------------------------------------------------
(* C13 *)

\* C13: under the default policy new returns Err exactly when an error of
\* a kind other than permission-denied was raised during the walk; errors
\* of kind permission-denied alone never make it return Err.
C13_DefaultFatalKinds ==
    (policy = "default" /\ phase = "done") =>
        (result = "err" <=> \E e \in Raised : e.kind # "PermissionDenied")

----------------------------------------------------------------------------
(* C14 *)

\* the walk was aborted: the last thing that happened is an error that
\* handle_error judged fatal at the root, or the failure to open the root
Aborted ==
    /\ log # << >>
    /\ \/ (Last(log).op = "handle_error" /\ Last(log).res = "Some"
               /\ Last(log).dir = Root)
       \/ (Last(log).op = "read_dir" /\ Last(log).err # NoError
               /\ Last(log).dir = Root)

\* the for loop of build_tree(root) ran to its end
RootWalkCompleted ==
    /\ log # << >>
    /\ Last(log).op = "loop_end"
    /\ Last(log).dir = Root

\* C14: new returns either a tree or an error, never both and never a
\* partial tree: when the walk was aborted it returns Err, no tree exists
\* and no cursor can be made; a tree is returned only when the walk of the
\* root ran to its end, and it holds the whole buffer.
C14_TreeOrError ==
    phase = "done" =>
        /\ result \in {"ok", "err"}
        /\ result = "err" <=> Aborted
        /\ result = "ok" <=> RootWalkCompleted
        /\ result = "err" =>
              /\ tree = NoTree
              /\ retErr # NoError
              /\ \A c \in Cursors : ~cursors[c].live
        /\ result = "ok" =>
              /\ tree = [root |-> Root, path |-> path]
              /\ retErr = NoError

\* new returned Err after entries had been appended to the buffer
C14_Witness ==
    /\ phase = "done"
    /\ result = "err"
    /\ Len(path) >= 4
    /\ tree = NoTree

----------------------------------------------------------------------------
(* C15 *)

\* the calls of op made for the entry of event i
CallsFor(i, op) == {j \in 1..Len(log) : log[j].op = op /\ SameEntry(i, j)}

\* C15: the calls made for a listed entry follow one protocol.  filter is
\* the first call and is made exactly once; visit is called at most once
\* and only right after filter returned Ok(true); the type is asked for at
\* most once and only right after visit returned Ok; the name is pushed at
\* most once and only right after the type query succeeded.
C15_CallbackProtocol ==
    \A i \in 1..Len(log) :
        /\ (log[i].op = "next" /\ log[i].res = "ok") =>
              /\ Cardinality(CallsFor(i, "filter")) <= 1
              /\ Cardinality(CallsFor(i, "visit")) <= 1
              /\ Cardinality(CallsFor(i, "file_type")) <= 1
              /\ Cardinality(CallsFor(i, "push_name")) <= 1
              /\ i < Len(log) => (log[i + 1].op = "filter" /\ SameEntry(i, i + 1))
              /\ i = Len(log) => (Top.pc = "filter" /\ Top.item.name = log[i].entry)
        /\ log[i].op = "filter" =>
              (log[i - 1].op = "next" /\ log[i - 1].res = "ok" /\ SameEntry(i, i - 1))
        /\ log[i].op = "visit" =>
              (log[i - 1].op = "filter" /\ log[i - 1].res = "true" /\ SameEntry(i, i - 1))
        /\ log[i].op = "file_type" =>
              (log[i - 1].op = "visit" /\ log[i - 1].res = "ok" /\ SameEntry(i, i - 1))
        /\ log[i].op = "push_name" =>
              (log[i - 1].op = "file_type" /\ log[i - 1].res \in {"file", "dir", "symlink"}
                  /\ SameEntry(i, i - 1))

\* one entry was filtered out, one failed in visit, one failed in its type
\* query and one was appended
C15_Witness ==
    /\ \E ev \in Range(log) : ev.op = "filter" /\ ev.res = "false"
    /\ \E ev \in Range(log) : ev.op = "visit" /\ ev.res \in ErrorKinds
    /\ \E ev \in Range(log) : ev.op = "file_type" /\ ev.res \in ErrorKinds
    /\ \E ev \in Range(log) : ev.op = "push_name"

----------------------------------------------------------------------------
(* C16 *)

\* C16: after a successful build with the example's Stats visitor, which
\* counts the calls of visit that returned Ok, iter() yields as many paths
\* as were counted (the example's assert_eq!(n, stats.items)).
C16_ItemsCounted ==
    (policy = "stats" /\ result = "ok") =>
        /\ Len(Iterate(tree.root, tree.path)) = items
        /\ \A c \in Cursors : cursors[c].ended => Len(cursors[c].out) = items

----------------------------------------------------------------------------
(* C17 *)

\* a cursor just made over the tree
FreshCursor ==
    [live |-> TRUE, current |-> Root, pos |-> 0, out |-> << >>,
     ended |-> FALSE, panic |-> FALSE]

\* cursor c as it stands is cursor b after one more call of next
Advanced(b, c) ==
    LET s == IterScan(b.current, b.pos, tree.path) IN
    /\ c.live
    /\ c.current = s.current
    /\ c.pos = s.pos
    /\ c.out = (IF s.some THEN Append(b.out, s.current) ELSE b.out)

\* what a cursor run alone has yielded after n calls of next
SoloOut(n) ==
    LET all == Iterate(Root, path) IN
    SubSeq(all, 1, IF n < Len(all) THEN n ELSE Len(all))

\* C17: cursors over one tree are independent.  Whatever the interleaving,
\* each cursor has yielded what a cursor run alone yields in as many calls,
\* all of it once it returned None; a step that changes a cursor changes
\* neither the tree nor any other cursor, and it either advances that
\* cursor from its own place or makes it a fresh cursor at the first path.
C17_IndependentCursors ==
    /\ [](\A c \in Cursors :
            cursors[c].live =>
               /\ cursors[c].out = SoloOut(Len(cursors[c].out))
               /\ cursors[c].ended => cursors[c].out = Iterate(Root, path))
    /\ [][\A c \in Cursors :
            cursors'[c] # cursors[c] =>
               /\ tree' = tree
               /\ path' = path
               /\ \A d \in Cursors \ {c} : cursors'[d] = cursors[d]
               /\ \/ cursors'[c] = FreshCursor
                  \/ Advanced(cursors[c], cursors'[c])]_vars

\* cursor 1 ran to the end while cursor 2, started later, is midway
C17_Witness ==
    /\ cursors[1].ended
    /\ Len(cursors[1].out) = 5
    /\ cursors[2].live
    /\ ~cursors[2].ended
    /\ Len(cursors[2].out) = 2

----------------------------------------------------------------------------
(* C18 *)

\* the type the type query gave for the entry whose name event i pushed
TypeAt(i) == log[i - 1].res

\* C18: symbolic links are stored and not followed.  The name of an entry
\* whose type is not directory is followed at once by its "..", nothing in
\* between; only an entry whose own type is directory is opened and listed,
\* so nothing is ever read or listed through a symbolic link; and on every
\* tree new comes to return.
C18_LinksNotFollowed ==
    /\ [](\A i \in 1..Len(log) :
            /\ (log[i].op = "push_name" /\ TypeAt(i) # "dir") =>
                  /\ i < Len(log) =>
                        /\ log[i + 1].op = "push_up"
                        /\ SameEntry(i, i + 1)
                        /\ log[i + 1].buf = Append(log[i].buf, ParentDir)
                  /\ i = Len(log) => (phase = "building" /\ Top.pc = "typed")
            /\ (log[i].op = "read_dir" /\ log[i].dir # Root) =>
                  /\ log[i - 1].op = "push_name"
                  /\ EntryPath(log[i - 1]) = log[i].dir
                  /\ TypeAt(i - 1) = "dir"
            /\ log[i].op \in {"read_dir", "next"} =>
                  \A k \in 1..(Len(log[i].dir) - 1) :
                      \E x \in Range(Listing(fs, SubSeq(log[i].dir, 1, k))) :
                          x.name = log[i].dir[k + 1] /\ x.typ = "dir")
    /\ <>(phase = "done")

\* the symbolic link l is in the returned tree, directly followed by ".."
C18_Witness ==
    /\ result = "ok"
    /\ Len(tree.path) = 10
    /\ tree.path[9] = "l"
    /\ tree.path[10] = ParentDir
    /\ \E ev \in Range(log) :
          ev.op = "file_type" /\ ev.entry = "l" /\ ev.res = "symlink"

----------------------------------------------------------------------------
(* C19 *)

\* handle_error call i is about an error that came out of the walk of the
\* subdirectory log[i].entry
IsPropagated(i) ==
    /\ log[i].op = "handle_error"
    /\ log[i].entry # None
    /\ ~IsOwnError(log[i])

\* event i lets an error out of build_tree(log[i].dir): the directory could
\* not be opened, or handle_error judged an error fatal there
LeavesWithError(i) ==
    \/ log[i].op = "read_dir" /\ log[i].err # NoError
    \/ log[i].op = "handle_error" /\ log[i].res = "Some"

----------------------------------------------------------------------------
(* C20 *)

\* C20: the decoder is finite and comes back to the root.  A cursor never
\* meets a component other than a name or ".." (the unreachable! branch) and
\* never yields more than half as many paths as the buffer has components;
\* once it returned None it has yielded exactly half as many, the whole
\* buffer is consumed, its path is the root again, and a further call of
\* next returns None and leaves it as it is.
C20_DecoderFinite ==
    \A c \in Cursors :
        cursors[c].live =>
            /\ ~cursors[c].panic
            /\ 2 * Len(cursors[c].out) <= Len(tree.path)
            /\ cursors[c].pos <= Len(tree.path)
            /\ cursors[c].ended =>
                  /\ 2 * Len(cursors[c].out) = Len(tree.path)
                  /\ cursors[c].pos = Len(tree.path)
                  /\ cursors[c].current = tree.root
                  /\ IterScan(cursors[c].current, cursors[c].pos, tree.path) =
                        [current |-> cursors[c].current, pos |-> cursors[c].pos,
                         some |-> FALSE, panic |-> FALSE]

\* a cursor over a buffer of ten components returned None
C20_Witness ==
    /\ Len(tree.path) = 10
    /\ cursors[2].ended
    /\ Len(cursors[2].out) = 5
    /\ cursors[2].current = Root
    /\ ~cursors[1].live

====
